---- MODULE Spec2Model ----
(***************************************************************************)
(* A model of marketpsych/sftp.py: the period algebra, the directory       *)
(* resolver, the caching SFTP client, the output sinks and the download    *)
(* loop of SFTPClient.                                                      *)
(*                                                                         *)
(* Conventions.  Python's None is the empty tuple <<>>.  A datetime is the *)
(* integer Dt(y, m, d, H, M), an encoding that keeps the chronological     *)
(* order.  A Period is a pair <<start, end>> of datetimes.  A remote file  *)
(* is known by its file name; a remote path is <<directory, file name>>.   *)
(***************************************************************************)
EXTENDS Integers, Sequences, FiniteSets, TLC

None == <<>>

\* ------------------------------------------------------------------------
\* Enumerations and templates (sftp.py 25-56)
\* ------------------------------------------------------------------------

\* BUCKETS = "monthly daily hourly minutely".split(); iterating the Enum
\* Bucket yields its members in this definition order.
BUCKETS == <<"monthly", "daily", "hourly", "minutely">>

Bucket == {BUCKETS[i] : i \in 1..Len(BUCKETS)}

DATAFRAME_STR == "pandas://"
LS_STR == "ls://"

\* ------------------------------------------------------------------------
\* Period algebra (sftp.py 75-108)
\* ------------------------------------------------------------------------

\* datetime(year, month, day, hour, minute) as an order-preserving integer.
Dt(y, m, d, H, M) == ((((y * 13 + m) * 32 + d) * 24 + H) * 60 + M)

\* calendar.monthrange(year, month)[1]: the number of days of the month.
MonthRange(y, m) ==
    IF m = 2
    THEN IF (y % 4 = 0 /\ y % 100 # 0) \/ y % 400 = 0 THEN 29 ELSE 28
    ELSE IF m \in {4, 6, 9, 11} THEN 30 ELSE 31

Min2(a, b) == IF a <= b THEN a ELSE b
Max2(a, b) == IF a >= b THEN a ELSE b

\* The file names the remote directories may hold, with the groups DATE_PAT
\* captures from field 4 of each (yyyy, mm, dd, HH, MM; a group that did not
\* take part in the match is absent, so the tuple is shorter).
DateGroups(name) ==
    CASE name = "a.b.c.d.2021-01.txt"    -> <<2021, 1>>
      [] name = "a.b.c.d.2021-03.txt"    -> <<2021, 3>>
      [] name = "a.b.c.d.2021-01-10.txt" -> <<2021, 1, 10>>
      [] name = "a.b.c.d.2021-02-10.txt" -> <<2021, 2, 10>>
      [] name = "a.b.c.d.2021-02-31.txt" -> <<2021, 2, 31>>
      [] name = "a.b.c.d.2021.txt"       -> <<2021>>

\* parse_date as it would be if only the end of a range had its day clamped.
parse_date_clamps_end_only(groups, end) ==
    LET defts == IF end THEN <<0, 12, 31, 23, 59>> ELSE <<0, 1, 1, 0, 0>>
        part(i) == IF i <= Len(groups) THEN groups[i] ELSE defts[i]
    IN  Dt(part(1), part(2),
           IF end THEN Min2(part(3), MonthRange(part(1), part(2))) ELSE part(3),
           part(4), part(5))

\* parse_date: missing parts take the defaults of the range start or of the
\* range end, the day is clamped to the length of the month.
parse_date(groups, end) ==
    LET defts == IF end THEN <<0, 12, 31, 23, 59>> ELSE <<0, 1, 1, 0, 0>>
        part(i) == IF i <= Len(groups) THEN groups[i] ELSE defts[i]
    IN  Dt(part(1), part(2), Min2(part(3), MonthRange(part(1), part(2))),
           part(4), part(5))

\* parse_period(start, end=None) with end omitted, as parse_file_period calls it.
parse_period(groups) == <<parse_date(groups, FALSE), parse_date(groups, TRUE)>>

\* DATE_PAT.match on a string of the command line: the groups it captures as
\* numbers, None when the pattern does not match.
DATE_PAT_match(s) ==
    CASE s = "2021"       -> <<2021>>
      [] s = "2021-01"    -> <<2021, 1>>
      [] s = "2021-03-31" -> <<2021, 3, 31>>
      [] s = "2021-13"    -> <<2021, 13>>
      [] s = "2021-1"     -> None
      [] s = "Jan 2021"   -> None

\* Whether datetime(...) and monthrange(...) accept the parts parse_date
\* hands them: they raise ValueError on a month outside 1..12, a day 0, an
\* hour above 23 or a minute above 59.
DatetimeAccepts(groups) ==
    /\ groups[1] \in 1..9999
    /\ Len(groups) >= 2 => groups[2] \in 1..12
    /\ Len(groups) >= 3 => groups[3] >= 1
    /\ Len(groups) >= 5 => groups[4] \in 0..23 /\ groups[5] \in 0..59

\* Args.parse_period: parse_period(self.start, self.end), that is
\* parse_date(start) and parse_date(end or start, end=True); a ValueError of
\* either ends the program through parser.error.
Args_parse_period(start, end) ==
    LET s == DATE_PAT_match(start)
        e == DATE_PAT_match(IF end # "" THEN end ELSE start)
    IN  IF s = None \/ e = None THEN [error |-> "ValueError", period |-> None]
        ELSE IF ~DatetimeAccepts(s) \/ ~DatetimeAccepts(e)
        THEN [error |-> "ValueError", period |-> None]
        ELSE [error |-> "", period |-> <<parse_date(s, FALSE), parse_date(e, TRUE)>>]

\* parse_file_period: the period of field 4 of the dot-separated file name.
parse_file_period(name) == parse_period(DateGroups(name))

\* overlaps: max of the starts <= min of the ends.
overlaps(period1, period2) ==
    Max2(period1[1], period2[1]) <= Min2(period1[2], period2[2])

\* is_subperiod: period2 and period2[0] <= period1[0] and period1[1] <= period2[1]
is_subperiod(period1, period2) ==
    /\ period2 # None
    /\ period2[1] <= period1[1]
    /\ period1[2] <= period2[2]

SetMin(S) == CHOOSE x \in S : \A y \in S : x <= y
SetMax(S) == CHOOSE x \in S : \A y \in S : x >= y

\* periods_union as it would be without the old envelope among its periods.
periods_union_new_only(periods) ==
    LET some == {i \in 2..Len(periods) : periods[i] # None}
    IN  IF some = {} THEN None
        ELSE <<SetMin({periods[i][1] : i \in some}),
               SetMax({periods[i][2] : i \in some})>>

\* periods_union as it would be with min and max exchanged.
periods_union_swapped(periods) ==
    LET some == {i \in 1..Len(periods) : periods[i] # None}
    IN  IF some = {} THEN None
        ELSE <<SetMax({periods[i][1] : i \in some}),
               SetMin({periods[i][2] : i \in some})>>

\* periods_union: (min of the starts, max of the ends) of the periods that
\* are not None; None when there is none (zip of nothing raises ValueError).
periods_union(periods) ==
    LET some == {i \in 1..Len(periods) : periods[i] # None}
    IN  IF some = {} THEN None
        ELSE <<SetMin({periods[i][1] : i \in some}),
               SetMax({periods[i][2] : i \in some})>>

\* ------------------------------------------------------------------------
\* Bounds of the model and the inputs the environment draws from
\* ------------------------------------------------------------------------

\* The remote server returns at most this many directory entries, over all
\* the listings of one download.
MaxListed == 3

\* The number of ensure_cache / open / FileOutput.copy calls of a behaviour
\* of the caching client or of the concatenating sink.
MaxCalls == 3

\* The file names a remote directory may hold.
FileNames ==
    {"a.b.c.d.2021-01.txt", "a.b.c.d.2021-03.txt",
     "a.b.c.d.2021-01-10.txt", "a.b.c.d.2021-02-10.txt"}

\* Directory listings: sequences of at most n distinct file names.
Listings(n) ==
    {l \in UNION {[1..k -> FileNames] : k \in 0..n} :
        \A i, j \in 1..Len(l) : i # j => l[i] # l[j]}

\* The (start, end) arguments of download.
PeriodRequests ==
    {<<Dt(2021, 1, 1, 0, 0), Dt(2021, 3, 31, 23, 59)>>,
     <<Dt(2021, 1, 10, 0, 0), Dt(2021, 2, 10, 23, 59)>>}

\* The buckets argument of download: () by default, or a tuple of buckets in
\* the order the caller wrote them.
BucketRequests ==
    {<<>>, <<"daily">>, <<"daily", "monthly">>, <<"monthly", "hourly">>}

\* The output argument of download, a selector string for Output.parse.
OutputRequests == {DATAFRAME_STR, LS_STR, "out/", "out.tsv"}

\* The request fields the model keeps fixed.
ASSET_CLASS == "CMPNY"
FREQUENCY == "WDAI_UDAI"

\* ------------------------------------------------------------------------
\* Directory resolver (sftp.py 44-52, 111-126, 317-331)
\* ------------------------------------------------------------------------

\* A template is the tuple of the fields it substitutes, a directory the
\* tuple of the substituted components.
DEFAULT_TEMPLATE == <<"prefix", "asset_class", "frequency", "bucket">>
DEFAULT_PREFIX == "/mrn-mi-w/PRO/MI4"

\* download called as the library is: the template argument keeps its default.
Requests ==
    [buckets : BucketRequests, period : PeriodRequests, output : OutputRequests,
     template : {DEFAULT_TEMPLATE}]

\* sftp_dir: the template with prefix, asset class (with "_COR" for the
\* frequency W365_UDAI), frequency and bucket substituted.
sftp_dir(asset_class, frequency, bucket, prefix, template) ==
    [i \in 1..Len(template) |->
        CASE template[i] = "prefix" -> prefix
          [] template[i] = "asset_class" ->
                <<asset_class, IF frequency = "W365_UDAI" THEN "_COR" ELSE "">>
          [] template[i] = "frequency" -> frequency
          [] template[i] = "bucket" -> bucket]

\* iter_dirs as it would be if it put the buckets in canonical order.
iter_dirs_sorted(asset_class, frequency, buckets, template, prefix) ==
    LET asked(b) == buckets = <<>> \/ \E i \in 1..Len(buckets) : buckets[i] = b
        bs == SelectSeq(BUCKETS, asked)
    IN  [i \in 1..Len(bs) |-> sftp_dir(asset_class, frequency, bs[i], prefix, template)]

\* iter_dirs: one directory for each of `buckets or Bucket`, in that order.
iter_dirs(asset_class, frequency, buckets, template, prefix) ==
    LET bs == IF buckets # <<>> THEN buckets ELSE BUCKETS
    IN  [i \in 1..Len(bs) |-> sftp_dir(asset_class, frequency, bs[i], prefix, template)]

\* The values of the enumerations AssetClass and Frequency.
ASSET_CLASSES ==
    <<"CMPNY", "CMPNY_AMER", "CMPNY_APAC", "CMPNY_EMEA", "CMPNY_ESG",
      "CMPNY_GRP", "COM_AGR", "COM_ENM", "COU", "COU_ESG", "COU_MKT",
      "CRYPTO", "CUR">>
FREQUENCIES == <<"W365_UDAI", "WDAI_UDAI", "WDAI_UHOU", "W01M_U01M">>

AssetClass == {ASSET_CLASSES[i] : i \in 1..Len(ASSET_CLASSES)}
Frequency == {FREQUENCIES[i] : i \in 1..Len(FREQUENCIES)}

\* TEMPLATES, in the order of the dict: the enumeration the first root entry
\* belongs to, and the template that goes with it.
TEMPLATES ==
    <<[ty |-> Frequency, template |-> <<"frequency", "bucket">>],
      [ty |-> AssetClass, template |-> <<"asset_class", "frequency", "bucket">>],
      [ty |-> Bucket, template |-> <<"bucket">>]>>

\* detect_template as it would be if it took the last entry of the root
\* listing.
detect_template_last_entry(listing) ==
    IF listing = <<>>
    THEN [error |-> "SFTPError", message |-> "Empty root folder", template |-> None]
    ELSE LET dir == listing[Len(listing)]
             hits == {i \in 1..Len(TEMPLATES) : dir \in TEMPLATES[i].ty}
         IN  IF hits = {}
             THEN [error |-> "SFTPError",
                   message |-> "Can't detect directory structure", template |-> None]
             ELSE [error |-> "", message |-> "",
                   template |-> TEMPLATES[SetMin(hits)].template]

\* detect_template as it would be if it fell back to the default template.
detect_template_defaults(listing) ==
    LET hits == IF listing = <<>> THEN {}
                ELSE {i \in 1..Len(TEMPLATES) : Head(listing) \in TEMPLATES[i].ty}
    IN  [error |-> "", message |-> "",
         template |-> IF hits = {} THEN DEFAULT_TEMPLATE
                      ELSE TEMPLATES[SetMin(hits)].template]

\* detect_template on the root listing self.listdir() returned: the template
\* of the first enumeration that has the first entry as a value; SFTPError
\* when the listing is empty or no enumeration has it.
detect_template(listing) ==
    IF listing = <<>>
    THEN [error |-> "SFTPError", message |-> "Empty root folder", template |-> None]
    ELSE LET dir == Head(listing)
             hits == {i \in 1..Len(TEMPLATES) : dir \in TEMPLATES[i].ty}
         IN  IF hits = {}
             THEN [error |-> "SFTPError",
                   message |-> "Can't detect directory structure", template |-> None]
             ELSE [error |-> "", message |-> "",
                   template |-> TEMPLATES[SetMin(hits)].template]

\* ------------------------------------------------------------------------
\* Caching transport (sftp.py 281-303)
\* ------------------------------------------------------------------------

\* The bytes of the remote file of a name: a header line, "\n", the body.
Content(name) ==
    CASE name = "a.b.c.d.2021-01.txt"    -> <<"h", "\n", "a">>
      [] name = "a.b.c.d.2021-03.txt"    -> <<"h", "\n", "b">>
      [] name = "a.b.c.d.2021-01-10.txt" -> <<"g", "\n", "c">>
      [] name = "a.b.c.d.2021-02-10.txt" -> <<"h", "\n">>
      [] name = "a.b.c.d.2021-02-31.txt" -> <<"\n", "d">>
      [] name = "a.b.c.d.2021.txt"       -> <<>>

\* SFTPAttributes.st_size: the size in bytes of the remote file of a name.
st_size(name) == Len(Content(name))

\* The outcomes of one remote transfer of `path`: it completes, or it fails
\* after `written` bytes have reached the local file.  paramiko's get()
\* creates the local file, stats the remote file and then reads it through
\* self.open(), which is CachingSFTPClient.open: `nested` tells whether the
\* failure came after that call was entered.
GetResults(path) ==
    LET size == st_size(path[2])
    IN  {[ok |-> TRUE, written |-> size, nested |-> TRUE]}
        \cup {[ok |-> FALSE, written |-> k, nested |-> TRUE] :
                 k \in 0..(IF size = 0 THEN 0 ELSE size - 1)}
        \cup {[ok |-> FALSE, written |-> 0, nested |-> FALSE]}

\* The state of a client is [cache, inside_open]: cache maps each path that
\* has a local file under the cache root to the size of that file,
\* inside_open tells whether the attribute "__inside_open" is set.  Every
\* operation returns the state it leaves, with
\*   raised       whether it raised,
\*   attempted    whether it sent a request to the remote server,
\*   transferred  whether the remote file was read from the server,
\*   local        whether it returns the local cache file.

\* super().get(str(path), str(cached_path)).  The self.open() of get() finds
\* the guard set and reads the remote file, or, called with the guard clear
\* (ensure_cache called directly), sets the guard, finds the empty local
\* file, transfers through a second get() and clears the guard.
get(c, path, res) ==
    [cache |-> (path :> res.written) @@ c.cache,
     inside_open |-> IF res.ok THEN c.inside_open
                     ELSE c.inside_open \/ res.nested,
     raised |-> ~res.ok,
     attempted |-> TRUE,
     transferred |-> res.ok,
     local |-> res.ok]

\* ensure_cache as it would be without the test of the local file.
ensure_cache_always(c, path, res) == get(c, path, res)

\* ensure_cache: transfer unless the local file exists and is not empty.
ensure_cache(c, path, res) ==
    IF path \notin DOMAIN c.cache \/ c.cache[path] = 0
    THEN get(c, path, res)
    ELSE [cache |-> c.cache, inside_open |-> c.inside_open, raised |-> FALSE,
          attempted |-> FALSE, transferred |-> FALSE, local |-> TRUE]

\* open: with the guard set, paramiko's open of the remote file; otherwise
\* set the guard, ensure_cache, open the local file, delete the guard.  An
\* exception of ensure_cache leaves before the delattr.
open(c, filename, res) ==
    IF c.inside_open
    THEN [cache |-> c.cache, inside_open |-> c.inside_open, raised |-> ~res.ok,
          attempted |-> TRUE, transferred |-> res.ok, local |-> FALSE]
    ELSE LET r == ensure_cache([c EXCEPT !.inside_open = TRUE], filename, res)
         IN  IF r.raised THEN r ELSE [r EXCEPT !.inside_open = FALSE]

\* ------------------------------------------------------------------------
\* State
\* ------------------------------------------------------------------------

VARIABLES
    req,            \* the arguments of the download call
    pc,             \* "start", "iter", "copy", "done" or "failed"
    output,         \* the class of the Output the call works with
    dirs,           \* the directories iter_dirs yields
    di,             \* the index in dirs of the directory at hand
    attrs,          \* the file names matching() kept in that directory
    ai,             \* the index in attrs of the next file to copy
    copied_period,  \* download's copied_period
    n_files,        \* download's n_files
    result,         \* download's result (None, or the frame read so far)
    error,          \* the exception that left the call, "" when none
    warned,         \* whether "No files found within time range" was logged
    cache,          \* CachingSFTPClient: local cache files and their sizes
    inside_open,    \* CachingSFTPClient: the attribute "__inside_open"
    out,            \* FileOutput.out: what was written to the stream
    header,         \* FileOutput.header: <<>> for None, else <<the header>>
    dstdir,         \* the names of the files in the directory of a DirOutput
    stdout,         \* what MockOutput printed
    lsres,          \* history: how the listing of the directory at hand ended
    seen,           \* history: the entries the listings returned, <<di, name>>
    kept,           \* history: the entries matching() kept, <<di, name>>
    handed,         \* history: the entries given to output.copy_file
    remote,         \* history: the requests sent to the server and how each ended
    calls           \* history: the calls made on the client or on the sink

vars ==
    <<req, pc, output, dirs, di, attrs, ai, copied_period, n_files, result,
      error, warned, cache, inside_open, out, header, dstdir, stdout,
      lsres, seen, kept, handed, remote, calls>>

dlVars ==
    <<req, pc, output, dirs, di, attrs, ai, copied_period, n_files, result,
      error, warned, dstdir, stdout, lsres, seen, kept, handed>>

sinkVars == <<out, header>>

clientVars == <<cache, inside_open>>

\* ------------------------------------------------------------------------
\* Output sinks (sftp.py 129-278)
\* ------------------------------------------------------------------------

\* Output.parse for a selector that is not empty: the sentinels, then a
\* directory for a path ending in "/" (or "." or ".."), else a file.
Output_parse(path) ==
    IF path = DATAFRAME_STR THEN "DataFrameOutput"
    ELSE IF path = LS_STR THEN "MockOutput"
    ELSE IF path \in {"out/", ".", ".."} THEN "DirOutput"
    ELSE "FileOutput"

\* FileOutput.copy on the bytes `content` of a stream, for a sink in state
\* s = [out, header].  read().split(b"\n", 1) must give two parts; the header
\* is written when self.header is falsy (None or empty), compared otherwise.
FirstLF(content) ==
    IF \E i \in 1..Len(content) : content[i] = "\n"
    THEN SetMin({i \in 1..Len(content) : content[i] = "\n"})
    ELSE 0

FileOutput_copy(s, content) ==
    LET lf  == FirstLF(content)
        hdr == SubSeq(content, 1, lf - 1)
        buf == SubSeq(content, lf + 1, Len(content))
    IN  IF lf = 0
        THEN [out |-> s.out, header |-> s.header, raised |-> "ValueError"]
        ELSE IF s.header = <<>> \/ s.header[1] = <<>>
        THEN [out |-> s.out \o hdr \o <<"\n">> \o buf, header |-> <<hdr>>,
              raised |-> ""]
        ELSE IF s.header[1] # hdr
        THEN [out |-> s.out, header |-> s.header, raised |-> "Header mismatch"]
        ELSE [out |-> s.out \o buf, header |-> s.header, raised |-> ""]

\* FileOutput.copy_file: sftp.decompress(fp, self.copy) gives two arguments
\* to SFTPClient.decompress(self, fp, attr, func), which takes three: the
\* call raises TypeError before anything is opened.
FileOutput_copy_file(s, fp) ==
    [out |-> s.out, header |-> s.header, raised |-> "TypeError"]

\* DirOutput.copy_file: sftp.get_file(fp, self.out); no class of the client
\* defines get_file (SFTPClient defines copy_to_dir, paramiko defines get):
\* the attribute lookup raises AttributeError and nothing is copied.
DirOutput_copy_file(dst, fp) ==
    [dstdir |-> dst, raised |-> "AttributeError"]

\* SFTPClient.copy_to_dir: get(src, dst / src.name), never called.
copy_to_dir(dst, src) == dst \cup {src[2]}

\* MockOutput.copy_file as it would be if it returned the descriptor.
MockOutput_copy_file_collects(printed, attr) ==
    [stdout |-> Append(printed, attr), returned |-> <<attr>>]

\* MockOutput.copy_file: print(attr), returns None.
MockOutput_copy_file(printed, attr) ==
    [stdout |-> Append(printed, attr), returned |-> None]

\* DataFrameOutput.copy_file: open the file through the caching client, read
\* it into a frame, return the frame or accum with the frame appended.  A
\* frame is the tuple of the files read into it.
DataFrameOutput_copy_file(c, fp, accum, res) ==
    LET r == open(c, fp, res)
    IN  [client |-> r,
         raised |-> IF r.raised THEN "IOError" ELSE "",
         returned |-> IF r.raised THEN accum
                      ELSE IF accum = None THEN <<fp>> ELSE Append(accum, fp)]

\* ------------------------------------------------------------------------
\* Fetch planner: SFTPClient.matching and SFTPClient.download (sftp.py 333-409)
\* ------------------------------------------------------------------------

\* How a listing ends: the entries, or the exception of listdir_attr.
LsResults(n) ==
    {[error |-> "", listing |-> l] : l \in Listings(n)}
    \cup {[error |-> e, listing |-> <<>>] : e \in {"FileNotFoundError", "IOError"}}

\* The condition of matching as it would be without the coverage test.
keeps_overlap_only(period, copied, name) ==
    overlaps(period, parse_file_period(name))

\* The condition under which matching yields an entry.
keeps(period, copied, name) ==
    /\ overlaps(period, parse_file_period(name))
    /\ ~is_subperiod(parse_file_period(name), copied)

\* The entries a matching would keep that widened the envelope with every
\* entry it yields.
RECURSIVE RunningKeep(_, _, _)
RunningKeep(listing, period, copied) ==
    IF listing = <<>> THEN <<>>
    ELSE IF keeps(period, copied, Head(listing))
    THEN <<Head(listing)>>
         \o RunningKeep(Tail(listing), period,
                        periods_union(<<copied, parse_file_period(Head(listing))>>))
    ELSE RunningKeep(Tail(listing), period, copied)

\* matching as it would be if it tested each entry against the envelope
\* widened by the entries yielded before it.
matching_running_envelope(ls, period, copied) ==
    IF ls.error = "FileNotFoundError" THEN [error |-> "", found |-> <<>>]
    ELSE IF ls.error # "" THEN [error |-> ls.error, found |-> <<>>]
    ELSE [error |-> "", found |-> RunningKeep(ls.listing, period, copied)]

\* matching as it would be without the except clause.
matching_raises_not_found(ls, period, copied) ==
    IF ls.error # "" THEN [error |-> ls.error, found |-> <<>>]
    ELSE LET keep(name) == keeps(period, copied, name)
         IN  [error |-> "", found |-> SelectSeq(ls.listing, keep)]

\* matching as it would be with `except Exception`.
matching_swallows_all(ls, period, copied) ==
    IF ls.error # "" THEN [error |-> "", found |-> <<>>]
    ELSE LET keep(name) == keeps(period, copied, name)
         IN  [error |-> "", found |-> SelectSeq(ls.listing, keep)]

\* matching: FileNotFoundError of the listing is logged and ends the
\* generator, any other exception leaves it; else the entries that overlap
\* the period and are not inside copied_period, in listing order.
matching(ls, period, copied) ==
    IF ls.error = "FileNotFoundError" THEN [error |-> "", found |-> <<>>]
    ELSE IF ls.error # "" THEN [error |-> ls.error, found |-> <<>>]
    ELSE LET keep(name) == keeps(period, copied, name)
         IN  [error |-> "", found |-> SelectSeq(ls.listing, keep)]

\* download, lines 383-388: the Output of the selector, the locals.
Start ==
    /\ pc = "start"
    /\ req.template # <<>>
    /\ output' = Output_parse(req.output)
    /\ dirs' = iter_dirs(ASSET_CLASS, FREQUENCY, req.buckets, req.template,
                         DEFAULT_PREFIX)
    /\ pc' = "iter"
    /\ UNCHANGED <<req, di, attrs, ai, copied_period, n_files, result, error,
                   warned, dstdir, stdout, lsres, seen, kept, handed, remote>>
    /\ UNCHANGED <<clientVars, sinkVars, calls>>

\* What the server may return for the listing of the root.
RootListings ==
    {<<>>,
     <<"monthly", "daily", "minutely">>,
     <<"CMPNY", "COU">>,
     <<"WDAI_UDAI", "W01M_U01M">>,
     <<"daily">>,
     <<"README">>,
     <<"README", "CMPNY">>,
     <<"COU", "README">>}

\* What the server may answer to the listing of the root.
RootResults ==
    {[error |-> "", listing |-> l] : l \in RootListings}
    \cup {[error |-> "IOError", listing |-> <<>>]}

\* download, lines 383-388, and iter_dirs up to its first yield when the
\* template argument is empty: the root is listed and the template detected
\* from the listing.
StartDetect ==
    /\ pc = "start"
    /\ req.template = <<>>
    /\ output' = Output_parse(req.output)
    /\ \E root \in RootResults :
          LET t == detect_template(root.listing)
          IN  /\ remote' = Append(remote, <<"listdir", ".", root.error>>)
              /\ calls' = Append(calls, [op |-> "listdir", error |-> root.error,
                                         listing |-> root.listing])
              /\ error' = IF root.error # "" THEN root.error ELSE t.error
              /\ dirs' = IF error' # "" THEN dirs
                         ELSE iter_dirs(ASSET_CLASS, FREQUENCY, req.buckets,
                                        t.template, DEFAULT_PREFIX)
              /\ pc' = IF error' # "" THEN "failed" ELSE "iter"
    /\ UNCHANGED <<req, di, attrs, ai, copied_period, n_files, result,
                   warned, dstdir, stdout, lsres, seen, kept, handed>>
    /\ UNCHANGED <<clientVars, sinkVars>>

\* download, lines 389-398: the next directory is listed and filtered.
ListDir ==
    /\ pc = "iter"
    /\ di <= Len(dirs)
    /\ \E ls \in LsResults(MaxListed - Len(seen)) :
          LET m == matching(ls, req.period, copied_period)
          IN  /\ lsres' = ls.error
              /\ remote' = Append(remote, <<"listdir_attr", dirs[di], ls.error>>)
              /\ seen' = seen \o [i \in 1..Len(ls.listing) |-> <<di, ls.listing[i]>>]
              /\ attrs' = m.found
              /\ kept' = kept \o [i \in 1..Len(m.found) |-> <<di, m.found[i]>>]
              /\ ai' = 1
              /\ error' = m.error
              /\ pc' = IF m.error = "" THEN "copy" ELSE "failed"
    /\ UNCHANGED <<req, output, dirs, di, copied_period, n_files, result,
                   warned, dstdir, stdout, handed>>
    /\ UNCHANGED <<clientVars, sinkVars, calls>>

\* download, lines 399-402: output.copy_file for the next kept entry.
CopyFile ==
    /\ pc = "copy"
    /\ ai <= Len(attrs)
    /\ LET fp == <<dirs[di], attrs[ai]>>
       IN  /\ handed' = Append(handed, <<di, attrs[ai]>>)
           /\ \/ /\ output = "MockOutput"
                 /\ LET r == MockOutput_copy_file(stdout, attrs[ai])
                    IN  /\ stdout' = r.stdout
                        /\ result' = r.returned
                        /\ error' = ""
                 /\ UNCHANGED <<clientVars, sinkVars, dstdir, remote>>
              \/ /\ output = "FileOutput"
                 /\ LET r == FileOutput_copy_file([out |-> out, header |-> header], fp)
                    IN  /\ out' = r.out
                        /\ header' = r.header
                        /\ error' = r.raised
                 /\ UNCHANGED <<clientVars, dstdir, stdout, result, remote>>
              \/ /\ output = "DirOutput"
                 /\ LET r == DirOutput_copy_file(dstdir, fp)
                    IN  /\ dstdir' = r.dstdir
                        /\ error' = r.raised
                 /\ UNCHANGED <<clientVars, sinkVars, stdout, result, remote>>
              \/ /\ output = "DataFrameOutput"
                 /\ \E res \in GetResults(fp) :
                       LET r == DataFrameOutput_copy_file(
                                    [cache |-> cache, inside_open |-> inside_open],
                                    fp, result, res)
                       IN  /\ cache' = r.client.cache
                           /\ inside_open' = r.client.inside_open
                           /\ result' = r.returned
                           /\ error' = r.raised
                           /\ remote' = IF r.client.attempted
                                        THEN Append(remote, <<"get", fp, r.raised>>)
                                        ELSE remote
                 /\ UNCHANGED <<sinkVars, dstdir, stdout>>
    /\ ai' = ai + 1
    /\ pc' = IF error' = "" THEN "copy" ELSE "failed"
    /\ UNCHANGED <<req, output, dirs, di, attrs, copied_period, n_files, warned,
                   lsres, seen, kept, calls>>

\* download, lines 403-404: the envelope and the count after a directory.
EndDir ==
    /\ pc = "copy"
    /\ ai > Len(attrs)
    /\ copied_period' =
          periods_union(<<copied_period>>
                        \o [i \in 1..Len(attrs) |-> parse_file_period(attrs[i])])
    /\ n_files' = n_files + Len(attrs)
    /\ di' = di + 1
    /\ pc' = "iter"
    /\ UNCHANGED <<req, output, dirs, attrs, ai, result, error, warned, dstdir,
                   stdout, lsres, seen, kept, handed, remote>>
    /\ UNCHANGED <<clientVars, sinkVars, calls>>

\* The test of line 405 inverted.
no_files_found_inverted(n) == n # 0

\* download, line 405: the test that logs "No files found within time range".
no_files_found(n) == n = 0

\* download, lines 405-409: the warning when nothing was found, the return.
Finish ==
    /\ pc = "iter"
    /\ di > Len(dirs)
    /\ warned' = no_files_found(n_files)
    /\ pc' = "done"
    /\ UNCHANGED <<req, output, dirs, di, attrs, ai, copied_period, n_files,
                   result, error, dstdir, stdout, lsres, seen, kept, handed,
                   remote>>
    /\ UNCHANGED <<clientVars, sinkVars, calls>>

Init ==
    /\ req \in Requests
    /\ pc = "start"
    /\ output = ""
    /\ dirs = <<>>
    /\ di = 1
    /\ attrs = <<>>
    /\ ai = 1
    /\ copied_period = None
    /\ n_files = 0
    /\ result = None
    /\ error = ""
    /\ warned = FALSE
    /\ cache = <<>>
    /\ inside_open = FALSE
    /\ out = <<>>
    /\ header = <<>>
    /\ dstdir = {}
    /\ stdout = <<>>
    /\ lsres = ""
    /\ seen = <<>>
    /\ kept = <<>>
    /\ handed = <<>>
    /\ remote = <<>>
    /\ calls = <<>>

Next == Start \/ ListDir \/ CopyFile \/ EndDir \/ Finish

Spec == Init /\ [][Next]_vars

\* ------------------------------------------------------------------------
\* The caching client on its own: any sequence of ensure_cache and open
\* ------------------------------------------------------------------------

\* The remote paths the calls name: an empty file and two that are not.
CachePaths ==
    {<<"monthly", "a.b.c.d.2021.txt">>, <<"monthly", "a.b.c.d.2021-01.txt">>,
     <<"daily", "a.b.c.d.2021-02-10.txt">>}

\* The size of the local cache file of a path, -1 when there is none.
LocalSize(c, path) == IF path \in DOMAIN c THEN c[path] ELSE -1

\* What a call leaves in the history: the state it found, what it did.
CallRecord(op, path, r) ==
    [op |-> op, path |-> path, before |-> LocalSize(cache, path),
     guard |-> inside_open, raised |-> r.raised, attempted |-> r.attempted,
     transferred |-> r.transferred, local |-> r.local]

Idle ==
    /\ req = [buckets |-> <<>>, period |-> <<0, 0>>, output |-> "",
              template |-> DEFAULT_TEMPLATE]
    /\ pc = "idle"
    /\ output = ""
    /\ dirs = <<>>
    /\ di = 1
    /\ attrs = <<>>
    /\ ai = 1
    /\ copied_period = None
    /\ n_files = 0
    /\ result = None
    /\ error = ""
    /\ warned = FALSE
    /\ dstdir = {}
    /\ stdout = <<>>
    /\ lsres = ""
    /\ seen = <<>>
    /\ kept = <<>>
    /\ handed = <<>>
    /\ remote = <<>>

InitCache ==
    /\ Idle
    /\ cache = <<>>
    /\ inside_open = FALSE
    /\ out = <<>>
    /\ header = <<>>
    /\ calls = <<>>

\* A top-level call of ensure_cache(path).
CallEnsureCache ==
    /\ Len(calls) < MaxCalls
    /\ \E path \in CachePaths : \E res \in GetResults(path) :
          LET r == ensure_cache([cache |-> cache, inside_open |-> inside_open],
                                path, res)
          IN  /\ cache' = r.cache
              /\ inside_open' = r.inside_open
              /\ calls' = Append(calls, CallRecord("ensure_cache", path, r))
    /\ UNCHANGED <<dlVars, sinkVars, remote>>

\* A top-level call of open(path).
CallOpen ==
    /\ Len(calls) < MaxCalls
    /\ \E path \in CachePaths : \E res \in GetResults(path) :
          LET r == open([cache |-> cache, inside_open |-> inside_open], path, res)
          IN  /\ cache' = r.cache
              /\ inside_open' = r.inside_open
              /\ calls' = Append(calls, CallRecord("open", path, r))
    /\ UNCHANGED <<dlVars, sinkVars, remote>>

NextCache == CallEnsureCache \/ CallOpen

SpecCache == InitCache /\ [][NextCache]_vars

\* ------------------------------------------------------------------------
\* The concatenating sink on its own: any sequence of FileOutput.copy
\* ------------------------------------------------------------------------

\* The streams copy is given: the bytes of the remote files.
FedNames ==
    {"a.b.c.d.2021-01.txt", "a.b.c.d.2021-03.txt", "a.b.c.d.2021-01-10.txt",
     "a.b.c.d.2021-02-10.txt", "a.b.c.d.2021-02-31.txt", "a.b.c.d.2021.txt"}

InitFileOutput ==
    /\ Idle
    /\ cache = <<>>
    /\ inside_open = FALSE
    /\ out = <<>>
    /\ header = <<>>
    /\ calls = <<>>

\* A call of FileOutput.copy(in_, filename) on the bytes of a file.
CallCopy ==
    /\ Len(calls) < MaxCalls
    /\ \E name \in FedNames :
          LET r == FileOutput_copy([out |-> out, header |-> header], Content(name))
          IN  /\ out' = r.out
              /\ header' = r.header
              /\ calls' = Append(calls, [op |-> "copy", name |-> name,
                                         raised |-> r.raised,
                                         before |-> out, after |-> r.out])
    /\ UNCHANGED <<dlVars, clientVars, remote>>

NextFileOutput == CallCopy

SpecFileOutput == InitFileOutput /\ [][NextFileOutput]_vars

(***************************************************************************)
(* parse_period on its own: one call on a partial date string, given by    *)
(* the groups DATE_PAT captures in it.                                     *)
(***************************************************************************)

\* The partial date strings fed: yyyy, yyyy-mm, yyyy-mm-dd and
\* yyyy-mm-dd-HHMM, over a leap year and a common year, every month, and
\* days up to 31 whatever the month.
DateYears == {2020, 2021}
DateMonths == 1..12
DateDays == {1, 28, 29, 30, 31}
DateTimes == {<<0, 0>>, <<12, 30>>, <<23, 59>>}

DateParts ==
    {<<y>> : y \in DateYears}
    \cup {<<y, m>> : y \in DateYears, m \in DateMonths}
    \cup {<<y, m, d>> : y \in DateYears, m \in DateMonths, d \in DateDays}
    \cup {<<x[1], x[2], x[3], x[4][1], x[4][2]>> :
            x \in DateYears \X DateMonths \X DateDays \X DateTimes}

InitParse ==
    /\ Idle
    /\ cache = <<>>
    /\ inside_open = FALSE
    /\ out = <<>>
    /\ header = <<>>
    /\ calls = <<>>

\* A call of parse_period(s).
CallParsePeriod ==
    /\ calls = <<>>
    /\ \E groups \in DateParts :
          calls' = <<[op |-> "parse_period", s |-> groups,
                      period |-> parse_period(groups)]>>
    /\ UNCHANGED <<dlVars, clientVars, sinkVars, remote>>

NextParse == CallParsePeriod

SpecParse == InitParse /\ [][NextParse]_vars

(***************************************************************************)
(* DataFrameOutput on the rows of a file (sftp.py 196-268): a line is the  *)
(* tuple of its tab-separated fields, the last of which ends with the      *)
(* newline, as next(fr) and the iteration of fr give it.                   *)
(***************************************************************************)

\* The last field of a line: the field with the newline after it.
Nl(s) ==
    CASE s = "assetCode"                -> "assetCode\n"
      [] s = "dataType"                 -> "dataType\n"
      [] s = "windowTimestamp"          -> "windowTimestamp\n"
      [] s = "USD"                      -> "USD\n"
      [] s = "EUR"                      -> "EUR\n"
      [] s = "News"                     -> "News\n"
      [] s = "Social"                   -> "Social\n"
      [] s = "2021-01-05T00:00:00.000Z" -> "2021-01-05T00:00:00.000Z\n"
      [] s = "2021-01-20T00:00:00.000Z" -> "2021-01-20T00:00:00.000Z\n"

\* A field as read_csv reads it: without the newline.
Strip(s) ==
    CASE s = "assetCode\n"                -> "assetCode"
      [] s = "dataType\n"                 -> "dataType"
      [] s = "windowTimestamp\n"          -> "windowTimestamp"
      [] s = "USD\n"                      -> "USD"
      [] s = "EUR\n"                      -> "EUR"
      [] s = "News\n"                     -> "News"
      [] s = "Social\n"                   -> "Social"
      [] s = "2021-01-05T00:00:00.000Z\n" -> "2021-01-05T00:00:00.000Z"
      [] s = "2021-01-20T00:00:00.000Z\n" -> "2021-01-20T00:00:00.000Z"
      [] OTHER                            -> s

\* strftime("%FT%T.000Z") of the datetimes a window is made of.
strftime(t) ==
    CASE t = Dt(2021, 1, 1, 0, 0)    -> "2021-01-01T00:00:00.000Z"
      [] t = Dt(2021, 1, 10, 0, 0)   -> "2021-01-10T00:00:00.000Z"
      [] t = Dt(2021, 2, 10, 23, 59) -> "2021-02-10T23:59:00.000Z"
      [] t = Dt(2021, 3, 31, 23, 59) -> "2021-03-31T23:59:00.000Z"

\* The timestamp strings in the order str.__le__ gives them.
Collation ==
    <<"2021-01-01T00:00:00.000Z", "2021-01-05T00:00:00.000Z",
      "2021-01-10T00:00:00.000Z", "2021-01-20T00:00:00.000Z",
      "2021-02-10T23:59:00.000Z", "2021-03-31T23:59:00.000Z">>

\* a <= b on two of these strings.
StrLe(a, b) ==
    \E i, j \in 1..Len(Collation) : Collation[i] = a /\ Collation[j] = b /\ i <= j

\* The parts of a line pattern: any field, no pattern at all (None), a
\* choice of values, the capturing group.
TSV_FIELD == [kind |-> "any", vals |-> <<>>]
NoPattern == [kind |-> "none", vals |-> <<>>]
Capture == [kind |-> "capture", vals |-> <<>>]

\* choice_re: the alternation of the values, None when there is none.
choice_re(vals) ==
    IF vals # <<>> THEN [kind |-> "choice", vals |-> vals] ELSE NoPattern

\* header.index(name): the position of the first column of that very name,
\* 0 when index raises ValueError.
Index(hdr, name) ==
    LET at == {i \in 1..Len(hdr) : hdr[i] = name}
    IN  IF at = {} THEN 0 ELSE SetMin(at)

\* line_re: for each keyword with a pattern, in the order of the call, the
\* fields are padded with TSV_FIELD up to the position of its column and the
\* pattern is put there; ValueError when the header has no such column.
RECURSIVE line_re_from(_, _, _)
line_re_from(hdr, kwargs, fields) ==
    IF kwargs = <<>> THEN [error |-> "", fields |-> fields]
    ELSE LET name == Head(kwargs)[1]
             val == Head(kwargs)[2]
             ix == Index(hdr, name)
             padded == fields \o [i \in 1..(ix - Len(fields)) |-> TSV_FIELD]
         IN  IF val = NoPattern THEN line_re_from(hdr, Tail(kwargs), fields)
             ELSE IF ix = 0 THEN [error |-> "ValueError", fields |-> <<>>]
             ELSE line_re_from(hdr, Tail(kwargs), [padded EXCEPT ![ix] = val])

line_re(hdr, kwargs) == line_re_from(hdr, kwargs, <<>>)

\* pat.match(line) for the pattern "\t".join(fields + [""]): every pattern
\* field is followed by a tab, so the line has a field after the last of
\* them, and field i of the line is what pattern field i describes.
pat_match(fields, line) ==
    LET ok(i) == fields[i].kind = "choice" =>
                    \E k \in 1..Len(fields[i].vals) : fields[i].vals[k] = line[i]
        caps == {i \in 1..Len(fields) : fields[i].kind = "capture"}
    IN  IF Len(line) > Len(fields) /\ \A i \in 1..Len(fields) : ok(i)
        THEN [matched |-> TRUE,
              group1 |-> IF caps = {} THEN "" ELSE line[SetMin(caps)]]
        ELSE [matched |-> FALSE, group1 |-> ""]

\* DataFrameOutput.pattern.
DataFrameOutput_pattern(self, hdr, capture_date) ==
    line_re(hdr, <<<<"assetCode", choice_re(self.assets)>>,
                      <<"dataType", choice_re(self.sources)>>,
                      <<"windowTimestamp",
                        IF capture_date THEN Capture ELSE NoPattern>>>>)

\* The rows filter_rows keeps when it does filter.
FilteredLines(self, lines, keep_all_dates) ==
    LET hdr == Head(lines)
        pat == DataFrameOutput_pattern(self, hdr, ~keep_all_dates)
        keep(line) ==
            LET m == pat_match(pat.fields, line)
            IN  IF keep_all_dates THEN m.matched
                ELSE /\ m.matched
                     /\ StrLe(strftime(self.start), m.group1)
                     /\ StrLe(m.group1, strftime(self.end))
    IN  IF pat.error # ""
        THEN [raised |-> pat.error, fast |-> FALSE, lines |-> <<>>]
        ELSE [raised |-> "", fast |-> FALSE,
              lines |-> <<hdr>> \o SelectSeq(Tail(lines), keep)]

\* filter_rows as it would be without the return of the unfiltered file.
filter_rows_always_filters(self, lines, path) ==
    FilteredLines(self, lines, FALSE)

\* filter_rows: the file as it is when there is no asset, no source and the
\* window holds the period of the file name; else the header and the lines
\* the pattern matches, within the window when it does not hold the period.
filter_rows(self, lines, path) ==
    LET period == parse_file_period(path)
        keep_all_dates == self.start <= period[1] /\ period[2] <= self.end
    IN  IF self.assets = <<>> /\ self.sources = <<>> /\ keep_all_dates
        THEN [raised |-> "", fast |-> TRUE, lines |-> lines]
        ELSE FilteredLines(self, lines, keep_all_dates)

\* read_tsv: the frame read_csv makes of what filter_rows returns, one record
\* for each line after the header, keyed by the column names.
read_tsv(self, lines, path) ==
    LET f == filter_rows(self, lines, path)
        columns == [i \in 1..Len(Head(f.lines)) |-> Strip(Head(f.lines)[i])]
        record(line) ==
            [c \in {columns[i] : i \in 1..Len(columns)} |->
                Strip(line[Index(columns, c)])]
    IN  IF f.raised # "" THEN [raised |-> f.raised, fast |-> f.fast, df |-> <<>>]
        ELSE [raised |-> "", fast |-> f.fast,
              df |-> [i \in 1..(Len(f.lines) - 1) |-> record(f.lines[i + 1])]]

\* The number of rows of a file.
MaxRows == 2

\* The rows a file may have and the order of its columns.
RowValues ==
    [assetCode : {"USD", "EUR"}, dataType : {"News", "Social"},
     windowTimestamp : {"2021-01-05T00:00:00.000Z", "2021-01-20T00:00:00.000Z"}]

Tables == UNION {[1..k -> RowValues] : k \in 0..MaxRows}

Headers ==
    {h \in [1..3 -> {"assetCode", "dataType", "windowTimestamp"}] :
        \A i, j \in 1..3 : i # j => h[i] # h[j]}

\* The line of a row under a header, and the lines of a file.
LineOf(columns, row) ==
    [i \in 1..Len(columns) |->
        IF i = Len(columns) THEN Nl(row[columns[i]]) ELSE row[columns[i]]]

LinesOf(columns, rows) ==
    <<[i \in 1..Len(columns) |->
          IF i = Len(columns) THEN Nl(columns[i]) ELSE columns[i]]>>
    \o [i \in 1..Len(rows) |-> LineOf(columns, rows[i])]

\* The sinks download makes with replace(output, assets, start, end, sources).
Sinks ==
    {[assets |-> a, sources |-> src, start |-> w[1], end |-> w[2]] :
        a \in {<<>>, <<"USD">>}, src \in {<<>>, <<"News">>}, w \in PeriodRequests}

InitFilter ==
    /\ Idle
    /\ cache = <<>>
    /\ inside_open = FALSE
    /\ out = <<>>
    /\ header = <<>>
    /\ calls = <<>>

\* copy_file of a DataFrameOutput on a file that opened: the frame read_tsv
\* returns, appended to accum when there is one.
CallCopyFile ==
    /\ calls = <<>>
    /\ \E self \in Sinks, columns \in Headers, rows \in Tables,
          accum \in {None, <<[assetCode |-> "EUR", dataType |-> "News",
                              windowTimestamp |-> "2021-01-05T00:00:00.000Z"]>>} :
          LET path == "a.b.c.d.2021-01.txt"
              r == read_tsv(self, LinesOf(columns, rows), path)
          IN  calls' = <<[op |-> "copy_file", self |-> self, path |-> path,
                          columns |-> columns, rows |-> rows, accum |-> accum,
                          raised |-> r.raised, fast |-> r.fast,
                          returned |-> IF r.raised # "" THEN None
                                       ELSE IF accum = None THEN r.df
                                       ELSE accum \o r.df]>>
    /\ UNCHANGED <<dlVars, clientVars, sinkVars, remote>>

NextFilter == CallCopyFile

SpecFilter == InitFilter /\ [][NextFilter]_vars

(***************************************************************************)
(* The command line: the dates are parsed, the client connects and         *)
(* download runs with the arguments given.                                 *)
(***************************************************************************)

\* The start and end arguments of the command line; "" for an end left out.
ArgRequests ==
    {<<"2021-01", "">>, <<"2021", "">>, <<"2021-01", "2021-03-31">>,
     <<"2021-1", "">>, <<"2021-01", "Jan 2021">>, <<"2021-13", "">>}

\* The command lines: --template left at its default or given as "".
CliRequests ==
    [buckets : {<<"daily">>}, period : {None}, output : {LS_STR, DATAFRAME_STR},
     template : {DEFAULT_TEMPLATE, <<>>}, args : ArgRequests]

InitRequest ==
    /\ Idle
    /\ cache = <<>>
    /\ inside_open = FALSE
    /\ out = <<>>
    /\ header = <<>>
    /\ calls = <<>>

\* The program is started with a command line.
Invoke ==
    /\ pc = "idle"
    /\ req' \in CliRequests
    /\ pc' = "main"
    /\ UNCHANGED <<output, dirs, di, attrs, ai, copied_period, n_files, result,
                   error, warned, dstdir, stdout, lsres, seen, kept, handed,
                   remote, calls>>
    /\ UNCHANGED <<clientVars, sinkVars>>

\* __main__ up to the call of download: args.parse_period(), then connect.
Main ==
    /\ pc = "main"
    /\ LET p == Args_parse_period(req.args[1], req.args[2])
       IN  /\ error' = p.error
           /\ req' = [req EXCEPT !.period = p.period]
           /\ pc' = IF p.error # "" THEN "failed" ELSE "start"
    /\ UNCHANGED <<output, dirs, di, attrs, ai, copied_period, n_files, result,
                   warned, dstdir, stdout, lsres, seen, kept, handed, remote,
                   calls>>
    /\ UNCHANGED <<clientVars, sinkVars>>

NextRequest ==
    Invoke \/ Main \/ Start \/ StartDetect \/ ListDir \/ CopyFile \/ EndDir \/ Finish

SpecRequest == InitRequest /\ [][NextRequest]_vars

(***************************************************************************)
(* detect_template on its own: calls on a client whose root the server     *)
(* lists as it likes.                                                      *)
(***************************************************************************)

InitTemplate ==
    /\ Idle
    /\ cache = <<>>
    /\ inside_open = FALSE
    /\ out = <<>>
    /\ header = <<>>
    /\ calls = <<>>

\* A call of detect_template().
CallDetectTemplate ==
    /\ Len(calls) < MaxCalls
    /\ \E listing \in RootListings :
          LET r == detect_template(listing)
          IN  /\ remote' = Append(remote, <<"listdir", ".", "">>)
              /\ calls' = Append(calls, [op |-> "detect_template",
                                         listing |-> listing,
                                         error |-> r.error,
                                         message |-> r.message,
                                         template |-> r.template])
    /\ UNCHANGED <<dlVars, clientVars, sinkVars>>

NextTemplate == CallDetectTemplate

SpecTemplate == InitTemplate /\ [][NextTemplate]_vars

\* ------------------------------------------------------------------------
\* Properties
\* ------------------------------------------------------------------------

Range(q) == {q[i] : i \in 1..Len(q)}

Terminated == pc \in {"done", "failed"}

\* The period of a listed entry <<di, name>>: the start and the end of the
\* date in its name.
PeriodOf(e) == parse_file_period(e[2])

\* p and q have an instant in common.
Meet(p, q) == ~(p[2] < q[1] \/ q[2] < p[1])

\* The smallest period holding every period of a set that is not empty.
BoundingBox(ps) ==
    <<CHOOSE a \in {p[1] : p \in ps} : \A p \in ps : a <= p[1],
      CHOOSE b \in {p[2] : p \in ps} : \A p \in ps : b >= p[2]>>

\* The periods of the files handed to the sink from the directories before
\* the k-th.
HandedBefore(k) == {PeriodOf(h) : h \in {x \in Range(handed) : x[1] < k}}

\* An entry is covered when the directories before its own handed files
\* whose bounding box holds its period.
Covered(e) ==
    /\ HandedBefore(e[1]) # {}
    /\ LET env == BoundingBox(HandedBefore(e[1]))
       IN  env[1] <= PeriodOf(e)[1] /\ PeriodOf(e)[2] <= env[2]

Needed(e) == Meet(PeriodOf(e), req.period) /\ ~Covered(e)

Jan10 == "a.b.c.d.2021-01-10.txt"

\* C1: a listed file is handed to the sink only if its period overlaps the
\* requested period and is not inside the bounding box of the files handed
\* from the earlier directories; once its directory has been processed,
\* every listed file of that kind has been handed.  A file for 2021-01-10 is
\* never handed when that box holds [2021-01-01, 2021-01-31].
C1_HandedIffNeeded ==
    /\ \A h \in Range(handed) : h \in Range(seen) /\ Needed(h)
    /\ \A e \in Range(seen) :
          (e[1] < di \/ pc = "done") /\ Needed(e) => e \in Range(handed)
    /\ \A h \in Range(handed) :
          h[2] = Jan10 /\ HandedBefore(h[1]) # {} =>
             LET env == BoundingBox(HandedBefore(h[1]))
             IN  ~(env[1] <= Dt(2021, 1, 1, 0, 0) /\ Dt(2021, 1, 31, 23, 59) <= env[2])

\* C1 witness: a finished download whose first directory gave the file of
\* January 2021 and whose second directory listed the file of 2021-01-10,
\* which was not handed.
C1_Witness ==
    /\ pc = "done"
    /\ <<1, "a.b.c.d.2021-01.txt">> \in Range(handed)
    /\ <<2, Jan10>> \in Range(seen)
    /\ <<2, Jan10>> \notin Range(handed)
    /\ Meet(parse_file_period(Jan10), req.period)

\* C3: a listing that ends with FileNotFoundError raises nothing and keeps no
\* entry; neither that step nor the end of the directory changes the
\* envelope, the count, the result or the files handed, and the download goes
\* on to the next directory, so that a finished download has listed every
\* candidate directory.
C3_MissingDirectorySkipped ==
    /\ [](lsres = "FileNotFoundError" => error = "" /\ pc # "failed" /\ attrs = <<>>)
    /\ [][lsres' = "FileNotFoundError" /\ pc = "iter" /\ pc' # "done" =>
             /\ pc' = "copy"
             /\ UNCHANGED <<copied_period, n_files, result, handed, kept, di>>]_vars
    /\ [][lsres = "FileNotFoundError" /\ pc = "copy" =>
             /\ pc' = "iter"
             /\ di' = di + 1
             /\ UNCHANGED <<copied_period, n_files, result, handed, kept>>]_vars
    /\ [](pc = "done" =>
             /\ Len(remote) >= Len(dirs)
             /\ \A k \in 1..Len(dirs) :
                   \E i \in 1..Len(remote) :
                      remote[i][1] = "listdir_attr" /\ remote[i][2] = dirs[k])

\* C3 witness: the second of four directories was missing after the first
\* had given a file; the third was listed and gave another.
C3_Witness ==
    /\ pc = "done"
    /\ Len(dirs) = 4
    /\ remote[2][3] = "FileNotFoundError"
    /\ \E h \in Range(handed) : h[1] = 1
    /\ \E h \in Range(handed) : h[1] = 3

\* C4: as long as no entry was kept and no listing failed with an error
\* other than "not found", nothing is raised, nothing is handed to the sink
\* and the result is None; the download can always go on until it is done,
\* and when it is done the warning has been logged.
C4_NothingFound ==
    (kept = <<>> /\ \A i \in 1..Len(remote) : remote[i][3] \in {"", "FileNotFoundError"})
    => /\ error = ""
       /\ pc # "failed"
       /\ handed = <<>>
       /\ result = None
       /\ stdout = <<>> /\ out = <<>> /\ dstdir = {} /\ cache = <<>>
       /\ pc # "done" => ENABLED Next
       /\ pc = "done" => warned

\* C4 witness: a finished download of four directories, some missing, some
\* listing files outside the period or none, in which nothing was kept.
C4_Witness ==
    /\ pc = "done"
    /\ Len(dirs) = 4
    /\ kept = <<>>
    /\ seen # <<>>
    /\ \E i \in 1..Len(remote) : remote[i][3] = "FileNotFoundError"
    /\ warned

\* The calls that copied the remote file into the cache and returned the
\* local file.
Filled(i) == calls[i].transferred /\ calls[i].local

\* The calls that go through the cache: ensure_cache, and open when it finds
\* the guard clear.
ThroughCache(i) == calls[i].op = "ensure_cache" \/ ~calls[i].guard

\* C2 as stated: every remote path, a file of zero bytes included, is
\* transferred at most once, and after a transfer of a path every later call
\* for it returns the local file without a request to the server.
C2_AtMostOneTransfer ==
    \A i, j \in 1..Len(calls) :
        i < j /\ calls[i].path = calls[j].path /\ calls[i].transferred
        => ~calls[j].transferred /\ ~calls[j].attempted /\ calls[j].local

\* C2 amended: a remote path whose file is not empty is copied into the cache
\* at most once: after a call has copied it, every later ensure_cache of the
\* path, and every later open of it that finds the guard clear, returns the
\* local file without a request to the server.  A remote file of zero bytes
\* is requested again by every such call.
C2_NonEmptyCopiedOnce ==
    /\ \A i, j \in 1..Len(calls) :
          /\ i < j
          /\ calls[i].path = calls[j].path
          /\ Filled(i)
          /\ st_size(calls[i].path[2]) > 0
          /\ ThroughCache(j)
          => /\ ~calls[j].attempted
             /\ ~calls[j].transferred
             /\ ~calls[j].raised
             /\ calls[j].local
    /\ \A p \in CachePaths :
          st_size(p[2]) > 0 =>
             Cardinality({i \in 1..Len(calls) : calls[i].path = p /\ Filled(i)}) <= 1
    /\ \A j \in 1..Len(calls) :
          st_size(calls[j].path[2]) = 0 /\ ThroughCache(j) => calls[j].attempted

\* C2 witness: a file that is not empty was copied by one call and served
\* from the cache by a later ensure_cache and by a later open, after a file
\* of zero bytes had been copied twice.
C2_Witness ==
    /\ \E i, j, k \in 1..Len(calls) :
          /\ i < j /\ j < k
          /\ calls[i].path = calls[j].path /\ calls[j].path = calls[k].path
          /\ st_size(calls[i].path[2]) > 0
          /\ Filled(i)
          /\ {calls[j].op, calls[k].op} = {"ensure_cache", "open"}
          /\ ~calls[j].attempted /\ calls[j].local
          /\ ~calls[k].attempted /\ calls[k].local

\* The header line and the body of the bytes of a file that has a line feed.
HeaderOf(content) == SubSeq(content, 1, FirstLF(content) - 1)
BodyOf(content) == SubSeq(content, FirstLF(content) + 1, Len(content))

\* The listings that failed with an error other than "not found".
ListingFailed ==
    \E i \in 1..Len(remote) :
        remote[i][1] = "listdir_attr" /\ remote[i][3] \notin {"", "FileNotFoundError"}

\* C5 as stated: a download into a FileOutput that matched two files with the
\* same header line is done (it has not failed) and has written the header
\* once, then the body of the first file, then the body of the second.
C5_ConcatenatesTwoFiles ==
    /\ Terminated
    /\ output = "FileOutput"
    /\ ~ListingFailed
    /\ Len(kept) = 2
    /\ HeaderOf(Content(kept[1][2])) = HeaderOf(Content(kept[2][2]))
    => /\ pc = "done"
       /\ out = HeaderOf(Content(kept[1][2])) \o <<"\n">>
                \o BodyOf(Content(kept[1][2])) \o BodyOf(Content(kept[2][2]))

\* Whether the i-th call of copy was given a file with a header line.
HasHeader(i) == FirstLF(Content(calls[i].name)) > 0

\* C6 as stated: a call of FileOutput.copy with a file whose header differs
\* from the header of the first file the sink was given raises the header
\* mismatch error and writes nothing.
C6_MismatchRaisesAndWritesNothing ==
    \A i \in 2..Len(calls) :
        /\ HasHeader(1)
        /\ HasHeader(i)
        /\ HeaderOf(Content(calls[i].name)) # HeaderOf(Content(calls[1].name))
        => /\ calls[i].raised = "Header mismatch"
           /\ calls[i].after = calls[i].before

\* The buckets of the directories listed so far, in the order of the
\* listings.
ListedBuckets ==
    LET ls == SelectSeq(remote, LAMBDA r : r[1] = "listdir_attr")
    IN  [i \in 1..Len(ls) |-> ls[i][2][Len(ls[i][2])]]

IsPrefix(a, b) == Len(a) <= Len(b) /\ SubSeq(b, 1, Len(a)) = a

\* The requested buckets (all four by default) from coarse to fine.
Canonical(buckets) ==
    SelectSeq(<<"monthly", "daily", "hourly", "minutely">>,
              LAMBDA b : buckets = <<>> \/ b \in Range(buckets))

\* C7 as stated: with or without a bucket subset, the directories are listed
\* one per requested bucket in the order monthly, daily, hourly, minutely.
C7_CanonicalOrder ==
    /\ IsPrefix(ListedBuckets, Canonical(req.buckets))
    /\ pc = "done" => ListedBuckets = Canonical(req.buckets)

\* C7 amended: the directories are listed one per requested bucket in the
\* order in which the caller gave the buckets; when no bucket is given, all
\* four are listed in the order monthly, daily, hourly, minutely.
C7_RequestOrder ==
    LET asked == IF req.buckets = <<>>
                 THEN <<"monthly", "daily", "hourly", "minutely">>
                 ELSE req.buckets
    IN  /\ IsPrefix(ListedBuckets, asked)
        /\ pc = "done" => ListedBuckets = asked

\* C7 witness: a finished download for (daily, monthly) that listed daily and
\* then monthly.
C7_Witness ==
    /\ pc = "done"
    /\ req.buckets = <<"daily", "monthly">>
    /\ ListedBuckets = <<"daily", "monthly">>
    /\ handed # <<>>

\* C8: a request to the server that fails with anything but "not found" is
\* the last request of the download, which has failed with that error and can
\* take no further step; an exception of the sink ends the download in the
\* same way; no request is sent twice.
C8_ErrorsAbort ==
    /\ \A i \in 1..Len(remote) :
          remote[i][3] \notin {"", "FileNotFoundError"} =>
             i = Len(remote) /\ pc = "failed" /\ error = remote[i][3]
    /\ (error # "") = (pc = "failed")
    /\ pc = "failed" =>
          /\ ~ENABLED Next
          /\ ai > 1 => handed # <<>> /\ handed[Len(handed)] = <<di, attrs[ai - 1]>>
    /\ \A i, j \in 1..Len(remote) :
          i # j => <<remote[i][1], remote[i][2]>> # <<remote[j][1], remote[j][2]>>

\* C8 witness: the transfer of the second file of a directory failed while a
\* third file and further directories were still to come.
C8_Witness ==
    /\ pc = "failed"
    /\ error = "IOError"
    /\ remote[Len(remote)][1] = "get"
    /\ Len(handed) = 2
    /\ Len(attrs) = 3
    /\ di < Len(dirs)

\* C9 as stated: a download with the sink of "ls://" transfers no file and
\* returns the list of the descriptors of the matched files.
C9_ReturnsListing ==
    pc = "done" /\ output = "MockOutput" =>
       /\ \A i \in 1..Len(remote) : remote[i][1] = "listdir_attr"
       /\ cache = <<>>
       /\ result = [i \in 1..Len(kept) |-> kept[i][2]]

\* C9 amended: a download with the sink of "ls://" transfers no file, prints
\* the descriptor of every matched file, in order, and returns None.
C9_PrintsListing ==
    output = "MockOutput" =>
       /\ \A i \in 1..Len(remote) : remote[i][1] = "listdir_attr"
       /\ cache = <<>>
       /\ result = None
       /\ stdout = [i \in 1..Len(handed) |-> handed[i][2]]
       /\ pc = "done" => handed = kept /\ error = ""

\* C9 witness: a finished listing-only download that matched three files.
C9_Witness ==
    /\ pc = "done"
    /\ output = "MockOutput"
    /\ Len(kept) = 3
    /\ Len(stdout) = 3

\* C10 as stated: a download into a DirOutput is done (it has not failed) and
\* the directory holds one file per matched file, under the name of the
\* remote file; nothing is accumulated in the result.
C10_CopiesEveryFile ==
    Terminated /\ output = "DirOutput" /\ ~ListingFailed =>
       /\ pc = "done"
       /\ dstdir = {k[2] : k \in Range(kept)}
       /\ Len(handed) = Len(kept)
       /\ result = None

\* The bounding box of the files handed from the directories before the
\* k-th, None when there is none.
EnvelopeBefore(k) ==
    IF HandedBefore(k) = {} THEN None ELSE BoundingBox(HandedBefore(k))

\* C16: the envelope is None when the download starts; it is always the
\* bounding box of the periods of the files of the directories processed so
\* far; no step makes it None again, moves its start later or its end
\* earlier.
C16_EnvelopeGrows ==
    /\ [](pc = "start" => copied_period = None)
    /\ [](pc \in {"iter", "copy", "done", "failed"} =>
             copied_period = EnvelopeBefore(di))
    /\ [][copied_period # None =>
             /\ copied_period' # None
             /\ copied_period'[1] <= copied_period[1]
             /\ copied_period'[2] >= copied_period[2]]_vars

\* C16 witness: the envelope of a finished download that grew at both ends
\* after its first directory, over a directory that gave nothing.
C16_Witness ==
    /\ pc = "done"
    /\ Len(dirs) = 4
    /\ handed = <<<<1, "a.b.c.d.2021-02-10.txt">>, <<2, "a.b.c.d.2021-01.txt">>,
                  <<4, "a.b.c.d.2021-03.txt">>>>
    /\ copied_period = <<Dt(2021, 1, 1, 0, 0), Dt(2021, 3, 31, 23, 59)>>

\* An entry lies in a gap when files were handed from earlier directories
\* before and after its period and none of them meets its period.
InGap(e) ==
    /\ \E p \in HandedBefore(e[1]) : p[2] < PeriodOf(e)[1]
    /\ \E q \in HandedBefore(e[1]) : PeriodOf(e)[2] < q[1]
    /\ \A r \in HandedBefore(e[1]) : ~Meet(r, PeriodOf(e))

\* C17: a listed file whose period lies in a gap between the files handed
\* from earlier directories is never handed to the sink, although no file
\* handed covers its period.
C17_GapSkipped ==
    \A e \in Range(seen) : InGap(e) => e \notin Range(handed) /\ e \notin Range(kept)

\* C17 witness: the first directory gave the files of January and of March
\* 2021, the second listed the file of 2021-02-10, inside the requested
\* period, and the download finished without handing it.
C17_Witness ==
    /\ pc = "done"
    /\ <<1, "a.b.c.d.2021-01.txt">> \in Range(handed)
    /\ <<1, "a.b.c.d.2021-03.txt">> \in Range(handed)
    /\ <<2, "a.b.c.d.2021-02-10.txt">> \in Range(seen)
    /\ <<2, "a.b.c.d.2021-02-10.txt">> \notin Range(handed)
    /\ Meet(parse_file_period("a.b.c.d.2021-02-10.txt"), req.period)

\* C18: two entries of one listing whose periods meet, which both meet the
\* requested period and are both outside the bounding box of the earlier
\* directories, are both kept, and both handed once the directory has been
\* processed.
C18_NoDedupWithinDirectory ==
    \A e, f \in Range(seen) :
        /\ e[1] = f[1]
        /\ e # f
        /\ Meet(PeriodOf(e), PeriodOf(f))
        /\ Needed(e)
        /\ Needed(f)
        => /\ {e, f} \subseteq Range(kept)
           /\ (e[1] < di \/ pc = "done") => {e, f} \subseteq Range(handed)

\* C18 witness: one directory listed the file of January 2021 and then the
\* file of 2021-01-10, and both were handed.
C18_Witness ==
    /\ pc = "done"
    /\ \E k \in 1..Len(dirs) :
          \E i \in 1..Len(handed) - 1 :
             /\ handed[i] = <<k, "a.b.c.d.2021-01.txt">>
             /\ handed[i + 1] = <<k, Jan10>>

\* C19 as stated: after any call of open, returned or failed, the guard is
\* clear, so that every call of open finds it clear and goes through the
\* cache.
C19_GuardClearAfterOpen ==
    /\ (calls # <<>> /\ calls[Len(calls)].op = "open") => ~inside_open
    /\ \A i, j \in 1..Len(calls) :
          i < j /\ calls[i].op = "open" /\ calls[j].op = "open" => ~calls[j].guard

\* The year, the month and the day of a datetime.
YearOf(t) == t \div (13 * 32 * 24 * 60)
MonthOf(t) == (t \div (32 * 24 * 60)) % 13
DayOf(t) == (t \div (24 * 60)) % 32

\* C15: for every partial date string, the start parsed from it is not after
\* the end parsed from it; when the string gives a day, both have the year
\* and the month of the string and its day clamped to the length of the
\* month.
C15_StartNotAfterEnd ==
    \A i \in 1..Len(calls) :
        calls[i].op = "parse_period" =>
            LET s == calls[i].s
                start == calls[i].period[1]
                end == calls[i].period[2]
            IN  /\ start <= end
                /\ Len(s) >= 3 =>
                      /\ YearOf(start) = s[1] /\ YearOf(end) = s[1]
                      /\ MonthOf(start) = s[2] /\ MonthOf(end) = s[2]
                      /\ DayOf(start) = Min2(s[3], MonthRange(s[1], s[2]))
                      /\ DayOf(end) = DayOf(start)

\* C15 witness: 2021-02-31 was parsed, to the range from 00:00 to 23:59 of
\* 28 February 2021.
C15_Witness ==
    /\ calls # <<>>
    /\ calls[1].op = "parse_period"
    /\ calls[1].s = <<2021, 2, 31>>
    /\ calls[1].period = <<Dt(2021, 2, 28, 0, 0), Dt(2021, 2, 28, 23, 59)>>

\* C13: detect_template returns the bucket-only template for the root
\* listing (monthly, daily, minutely), the template that starts with the
\* asset class for (CMPNY, COU), and raises when the listing is empty or its
\* first entry is a value of none of Frequency, AssetClass, Bucket.
C13_DetectTemplate ==
    \A i \in 1..Len(calls) :
        calls[i].op = "detect_template" =>
            LET c == calls[i]
            IN  /\ c.listing = <<"monthly", "daily", "minutely">> =>
                      c.error = "" /\ c.template = <<"bucket">>
                /\ c.listing = <<"CMPNY", "COU">> =>
                      /\ c.error = ""
                      /\ c.template = <<"asset_class", "frequency", "bucket">>
                /\ c.listing = <<>> => c.error = "SFTPError"
                /\ (c.listing # <<>>
                    /\ c.listing[1] \notin Frequency \cup AssetClass \cup Bucket)
                   => c.error = "SFTPError"

\* C13 witness: the four cases happened in calls of one client.
C13_Witness ==
    /\ Len(calls) = 3
    /\ calls[1].listing = <<"monthly", "daily", "minutely">>
    /\ calls[1].template = <<"bucket">>
    /\ calls[2].listing = <<"CMPNY", "COU">>
    /\ calls[2].template = <<"asset_class", "frequency", "bucket">>
    /\ calls[3].listing = <<"README", "CMPNY">>
    /\ calls[3].error = "SFTPError"
    /\ calls[3].message = "Can't detect directory structure"

\* The dates of the command line are bad when DATE_PAT does not match one
\* of them or gives parts that are no date.
BadDates ==
    \E i \in 1..2 :
        /\ req.args[i] # ""
        /\ LET g == DATE_PAT_match(req.args[i])
           IN  g = None \/ (Len(g) >= 2 /\ g[2] > 12)

\* The listing of the root came back empty or with a first entry that no
\* enumeration has.
RootUndetectable ==
    /\ calls # <<>>
    /\ calls[1].op = "listdir"
    /\ calls[1].error = ""
    /\ \/ calls[1].listing = <<>>
       \/ calls[1].listing[1] \notin Frequency \cup AssetClass \cup Bucket

\* C14 as stated: when a request has failed on a bad date, an empty root
\* listing or an undetectable template, nothing was asked of the server.
C14_NoRemoteBeforeConfigError ==
    (pc = "failed" /\ error \in {"ValueError", "SFTPError"}) => remote = <<>>

\* C14, amended: a request with a bad date fails with nothing asked of the
\* server; a request whose root listing is empty or undetectable fails with
\* the listing of the root as the only request sent: no directory listed, no
\* file transferred.
C14_OnlyRootListedBeforeConfigError ==
    /\ (pc \notin {"idle", "main"} /\ BadDates) =>
          /\ pc = "failed"
          /\ error = "ValueError"
          /\ remote = <<>>
          /\ calls = <<>>
    /\ RootUndetectable =>
          /\ pc = "failed"
          /\ error = "SFTPError"
          /\ Len(remote) = 1
          /\ remote[1][1] = "listdir"
          /\ seen = <<>>
          /\ handed = <<>>
          /\ cache = <<>>
    /\ error \in {"ValueError", "SFTPError"} => BadDates \/ RootUndetectable

\* C14 witness: the dates were good, the template empty, the root listing
\* came back as (README, CMPNY) and the request failed on it.
C14_Witness ==
    /\ pc = "failed"
    /\ error = "SFTPError"
    /\ req.template = <<>>
    /\ calls = <<[op |-> "listdir", error |-> "", listing |-> <<"README", "CMPNY">>]>>
    /\ remote = <<<<"listdir", ".", "">>>>

\* The window of the sink of a call holds the period of the file's name.
WindowHoldsFile(c) ==
    /\ c.self.start <= parse_file_period(c.path)[1]
    /\ parse_file_period(c.path)[2] <= c.self.end

\* What copy_file returns when the rows given are the ones that come through.
Accumulated(c, rows) == IF c.accum = None THEN rows ELSE c.accum \o rows

\* C11: with no asset, no source and a window that holds the period of the
\* file, the file goes unfiltered and the frame returned has every row of it,
\* after the rows accumulated before.
C11_FastPathKeepsEveryRow ==
    \A i \in 1..Len(calls) :
        (/\ calls[i].op = "copy_file"
         /\ calls[i].self.assets = <<>>
         /\ calls[i].self.sources = <<>>
         /\ WindowHoldsFile(calls[i]))
        => /\ calls[i].raised = ""
           /\ calls[i].fast
           /\ calls[i].returned = Accumulated(calls[i], calls[i].rows)

\* C11 witness: a file of two rows whose last column is the timestamp was
\* read whole after one row accumulated before.
C11_Witness ==
    /\ calls # <<>>
    /\ calls[1].op = "copy_file"
    /\ calls[1].self.assets = <<>>
    /\ calls[1].self.sources = <<>>
    /\ WindowHoldsFile(calls[1])
    /\ calls[1].fast
    /\ calls[1].columns[3] = "windowTimestamp"
    /\ Len(calls[1].rows) = 2
    /\ calls[1].rows[1].assetCode # calls[1].rows[2].assetCode
    /\ Len(calls[1].returned) = 3

\* C12 as stated: with the asset filter (USD), no source filter and a window
\* that holds the period of the file, a file with rows of USD and of EUR
\* gives the rows of USD and no other, wherever the column assetCode is.
C12_AssetFilterAnyPosition ==
    \A i \in 1..Len(calls) :
        LET c == calls[i]
            IsUsd(row) == row.assetCode = "USD"
        IN  (/\ c.op = "copy_file"
             /\ c.self.assets = <<"USD">>
             /\ c.self.sources = <<>>
             /\ WindowHoldsFile(c)
             /\ \E k \in 1..Len(c.rows) : c.rows[k].assetCode = "USD"
             /\ \E k \in 1..Len(c.rows) : c.rows[k].assetCode = "EUR")
            => /\ c.raised = ""
               /\ c.returned = Accumulated(c, SelectSeq(c.rows, IsUsd))

====
